---------------------------- MODULE Spec2Model ----------------------------
(***************************************************************************)
(* A model of pyblish/util.py: the staged publish pipeline.                *)
(*                                                                         *)
(* One run of a lazy entry point (publish_iter, collect_iter, ...) is a    *)
(* Python generator.  The caller pulls it; between two pulls the generator *)
(* is suspended at a yield (pc = "yield").  The model follows the text of  *)
(* _convenience_iter and _process_plugins statement by statement; `pc'     *)
(* and `stage' are the generator's position, the other variables are its   *)
(* locals, the process-wide target registry, and a log of what the run     *)
(* showed to the outside (stage-runner calls, yielded results, emitted     *)
(* events) in the order it happened.                                       *)
(*                                                                         *)
(* Orders are real numbers in the program (CollectorOrder = 0, bands of    *)
(* half-width 0.5).  The model scales every order by two so that the band  *)
(* edges are integers: order n of the model is order n/2 of the program.   *)
(***************************************************************************)
EXTENDS Integers, Sequences, FiniteSets

VARIABLES
    entry,              \* the entry point that was called
    args,               \* its arguments: context, plugins, targets, orders
    registry,           \* api.registered_targets(): the process-wide registry
    registry_before,    \* the registry as it was when the run was created
    pc,                 \* position of the generator
    stage,              \* the bucket _convenience_iter is at, 1..6
    targets,            \* local `targets' (util.py:97)
    registered_targets, \* local `registered_targets' (util.py:98)
    context,            \* local `context' (util.py:101)
    plugins,            \* local `plugins' after the two filters (util.py:115-122)
    state,              \* local `state' (util.py:109-112)
    progress,           \* local `progress' (util.py:125-128)
    runner,             \* locals of the running _process_plugins call
    log,                \* what the run has shown so far, oldest first
    other               \* a second run of _convenience_iter in the same
                        \* process: its position and its locals `targets'
                        \* and `registered_targets'

vars == <<entry, args, registry, registry_before, pc, stage, targets,
          registered_targets, context, plugins, state, progress, runner, log,
          other>>

---------------------------------------------------------------------------
(* Bounds of the model *)

\* longest plugin list handed to an entry point
MaxPlugins == 2

\* most instances the pairing iterator fans one plugin out to
MaxInstances == 2

\* longest explicit target list
MaxTargets == 2

---------------------------------------------------------------------------
(* Collaborators that util.py imports (api, lib, logic, plugin) *)

\* api.CollectorOrder .. api.IntegratorOrder, times two
CollectorOrder == 0
ValidatorOrder == 2
ExtractorOrder == 4
IntegratorOrder == 6

\* the half-width of a band (0.5), times two
Offset == 1

Boundaries == {CollectorOrder, ValidatorOrder, ExtractorOrder, IntegratorOrder}

\* lib.inrange(number, base): base - offset <= number < base + offset
inrange(number, base) == base - Offset <= number /\ number < base + Offset

\* api.register_target: idempotent
register_target(reg, target) == reg \cup {target}

\* api.deregister_target
deregister_target(reg, target) == reg \ {target}

---------------------------------------------------------------------------
(* Helpers on sequences *)

Elems(s) == {s[i] : i \in 1..Len(s)}

SeqsUpTo(S, n) == UNION {[1..k -> S] : k \in 0..n}

Count(s, Test(_)) == Cardinality({i \in 1..Len(s) : Test(s[i])})

\* Python truthiness of an optional list argument: None and [] are falsy
Truthy(opt) == ~opt.none /\ opt.list # <<>>

None == [none |-> TRUE, list |-> <<>>]
Some(l) == [none |-> FALSE, list |-> l]

---------------------------------------------------------------------------
(* The inputs the runs are drawn from *)

\* The plug-in classes of the model, sorted by order as api.discover()
\* returns them.  Orders (times two): -2 is below the Collect band, -1 its
\* lower edge, 1 the lower edge of the Validate band, 7 the upper edge of
\* the Integrate band (outside it), and one class is inactive.
Roster ==
    << [name |-> "pre",   order |-> -2, active |-> TRUE],
       [name |-> "col",   order |-> -1, active |-> TRUE],
       [name |-> "val",   order |->  1, active |-> TRUE],
       [name |-> "off",   order |->  2, active |-> FALSE],
       [name |-> "ext",   order |->  4, active |-> TRUE],
       [name |-> "int",   order |->  6, active |-> TRUE],
       [name |-> "post",  order |->  7, active |-> TRUE] >>

SmallRoster ==
    << [name |-> "col",   order |-> -1, active |-> TRUE],
       [name |-> "post",  order |->  7, active |-> TRUE] >>

\* the classes of `roster' at the positions I, in the order of the roster
Picked(roster, I) ==
    [k \in 1..Cardinality(I) |->
        roster[CHOOSE i \in I : Cardinality({j \in I : j < i}) = k - 1]]

\* the plugin lists of at most n classes of the roster
PluginLists(roster, n) ==
    {Picked(roster, I) : I \in {J \in SUBSET (1..Len(roster)) : Cardinality(J) <= n}}

\* The values of the `orders' argument of publish_iter: None, the empty
\* list, lists of named boundaries, and lists naming other order values.
OrdersInputs ==
    { None, Some(<<>>),
      Some(<<ValidatorOrder>>),
      Some(<<CollectorOrder, ValidatorOrder>>),
      Some(<<ExtractorOrder, IntegratorOrder>>),
      Some(<<CollectorOrder, ValidatorOrder, ExtractorOrder, IntegratorOrder>>),
      Some(<<-2>>), Some(<<1>>) }

SingleStage == {"collect_iter", "validate_iter", "extract_iter", "integrate_iter"}

Entries == {"publish_iter"} \cup SingleStage

\* util.py:323-324, 351-352, 379-380, 409-410: the boundary a single-stage
\* entry point passes as orders
BoundaryOf(e) ==
    CASE e = "collect_iter"   -> CollectorOrder
      [] e = "validate_iter"  -> ValidatorOrder
      [] e = "extract_iter"   -> ExtractorOrder
      [] e = "integrate_iter" -> IntegratorOrder

\* (entry point, orders) as _convenience_iter receives them
Calls ==
    {<<"publish_iter", o>> : o \in OrdersInputs}
        \cup {<<e, Some(<<BoundaryOf(e)>>)>> : e \in SingleStage}

Labels == {"default", "a", "b"}

\* the `targets' argument of each of two runs sharing the registry
TwoRunsTargets == {None, Some(<<"a">>), Some(<<"a", "b">>)}

TargetInputs == {None} \cup {Some(l) : l \in SeqsUpTo({"a", "b"}, MaxTargets)}

---------------------------------------------------------------------------
(* The state before the first pull *)

\* the second run before its first pull
NoOther == [pc |-> "idle", targets |-> <<>>, registered_targets |-> {}]

NoRunner ==
    [bucket |-> <<>>, expected_plugins_count |-> 0, actual_plugins_count |-> 0,
     processed_plugins |-> {}, idx |-> 0, fanned |-> 0]

InitWith(pluginLists, calls, targetArgs, registries, contexts) ==
    /\ \E c \in calls, pl \in pluginLists, t \in targetArgs, cx \in contexts :
          /\ entry = c[1]
          /\ args = [context |-> cx, plugins |-> pl, targets |-> t, orders |-> c[2]]
    /\ registry \in registries
    /\ registry_before = registry
    /\ pc = "idle"
    /\ stage = 0
    /\ targets = <<>>
    /\ registered_targets = {}
    /\ context = "None"
    /\ plugins = <<>>
    /\ state = [nextOrder |-> <<>>, ordersWithError |-> {}]
    /\ progress = [current |-> 0, total |-> 0]
    /\ runner = NoRunner
    /\ log = <<>>
    /\ other = NoOther

\* runs over every plugin list, with the default target
Init ==
    InitWith(PluginLists(Roster, MaxPlugins), Calls, {None}, {{}}, {"ctx"})

\* runs over every target list and registry, with few plug-ins
InitTargets ==
    InitWith(PluginLists(SmallRoster, MaxPlugins),
             {<<"publish_iter", None>>, <<"collect_iter", Some(<<CollectorOrder>>)>>},
             TargetInputs, SUBSET Labels, {"ctx"})

---------------------------------------------------------------------------
(* _convenience_iter: set-up (util.py:96-128) *)

\* util.py:97
TargetsOf(opt) == IF Truthy(opt) THEN opt.list ELSE <<"default">>

\* util.py:101
ContextOf(cx) == IF cx = "None" THEN "new" ELSE cx

\* util.py:104-106
RECURSIVE RegisterAll(_, _)
RegisterAll(reg, ts) ==
    IF ts = <<>> THEN reg
    ELSE RegisterAll(register_target(reg, Head(ts)), Tail(ts))

\* util.py:115 without the test of plug.active
ActiveFilterOff(plugs) == plugs

\* util.py:115
ActiveFilter(plugs) == SelectSeq(plugs, LAMBDA plug : plug.active)

\* util.py:118-122 without the filter
OrderFilterOff(plugs, orders) == plugs

\* util.py:118-122 sparing the plug-ins outside the four named bands
OrderFilterKeepsOutside(plugs, orders) ==
    IF Truthy(orders)
    THEN SelectSeq(plugs, LAMBDA plug :
             \/ \E order \in Elems(orders.list) : inrange(plug.order, order)
             \/ \A b \in Boundaries : ~inrange(plug.order, b))
    ELSE plugs

\* util.py:118-122
OrderFilter(plugs, orders) ==
    IF Truthy(orders)
    THEN SelectSeq(plugs, LAMBDA plug :
             \E order \in Elems(orders.list) : inrange(plug.order, order))
    ELSE plugs

Start ==
    /\ pc = "idle"
    /\ targets' = TargetsOf(args.targets)
    /\ registered_targets' = registry
    /\ context' = ContextOf(args.context)
    /\ registry' = RegisterAll(registry, targets')
    /\ state' = [nextOrder |-> <<>>, ordersWithError |-> {}]
    /\ plugins' = OrderFilter(ActiveFilter(args.plugins), args.orders)
    /\ progress' = [current |-> 0, total |-> Len(plugins')]
    /\ stage' = 1
    /\ pc' = "stage"
    /\ UNCHANGED <<entry, args, other, registry_before, runner, log>>

---------------------------------------------------------------------------
(* _convenience_iter: the six buckets (util.py:130-196) *)

PreCollect == 1
Collect == 2
Validate == 3
Extract == 4
Integrate == 5
PostIntegrate == 6

\* the six tests with bands closed at both ends
InBucketClosedBands(s, plug) ==
    CASE s = PreCollect    -> plug.order < CollectorOrder - Offset
      [] s = Collect       -> /\ CollectorOrder - Offset <= plug.order
                              /\ plug.order <= CollectorOrder + Offset
      [] s = Validate      -> /\ ValidatorOrder - Offset <= plug.order
                              /\ plug.order <= ValidatorOrder + Offset
      [] s = Extract       -> /\ ExtractorOrder - Offset <= plug.order
                              /\ plug.order <= ExtractorOrder + Offset
      [] s = Integrate     -> /\ IntegratorOrder - Offset <= plug.order
                              /\ plug.order <= IntegratorOrder + Offset
      [] s = PostIntegrate -> plug.order > IntegratorOrder + Offset

\* util.py:131-135, 141-144, 153-156, 165-168, 177-180, 189-193
InBucket(s, plug) ==
    CASE s = PreCollect    -> plug.order < CollectorOrder
                              /\ ~inrange(plug.order, CollectorOrder)
      [] s = Collect       -> inrange(plug.order, CollectorOrder)
      [] s = Validate      -> inrange(plug.order, ValidatorOrder)
      [] s = Extract       -> inrange(plug.order, ExtractorOrder)
      [] s = Integrate     -> inrange(plug.order, IntegratorOrder)
      [] s = PostIntegrate -> plug.order > IntegratorOrder
                              /\ ~inrange(plug.order, IntegratorOrder)

BucketOf(s, plugs) == SelectSeq(plugs, LAMBDA plug : InBucket(s, plug))

\* the boundary that gates a bucket (util.py:146, 158, 170, 182)
StageBoundary(s) ==
    CASE s = Collect   -> CollectorOrder
      [] s = Validate  -> ValidatorOrder
      [] s = Extract   -> ExtractorOrder
      [] s = Integrate -> IntegratorOrder

\* the event emitted after a gated bucket (util.py:150, 162, 174, 186)
Checkpoint(s) ==
    CASE s = Collect   -> "collected"
      [] s = Validate  -> "validated"
      [] s = Extract   -> "extracted"
      [] s = Integrate -> "integrated"

Gated == {Collect, Validate, Extract, Integrate}

\* the gates without `not orders'
GateRestrictedOnly(s, orders) ==
    IF s \in Gated
    THEN ~orders.none /\ StageBoundary(s) \in Elems(orders.list)
    ELSE TRUE

\* a restriction gating the first and the last bucket too
GateEveryBucket(s, orders) ==
    \/ ~Truthy(orders)
    \/ s \in Gated /\ StageBoundary(s) \in Elems(orders.list)

\* the gates open without a list only, an empty list closing all four
GateNoneOnly(s, orders) ==
    IF s \in Gated
    THEN orders.none \/ StageBoundary(s) \in Elems(orders.list)
    ELSE TRUE

\* the gates closed once an order has failed
GateStopsOnError(s, orders) ==
    /\ state.ordersWithError = {}
    /\ IF s \in Gated
       THEN ~Truthy(orders) \/ StageBoundary(s) \in Elems(orders.list)
       ELSE TRUE

\* util.py:137, 146, 158, 170, 182, 195: whether bucket s is run
Gate(s, orders) ==
    IF s \in Gated
    THEN ~Truthy(orders) \/ StageBoundary(s) \in Elems(orders.list)
    ELSE TRUE

\* the validate bucket tried a second time
AfterBucketRetries(s) ==
    IF s = PostIntegrate
    THEN /\ pc' = "deregister"
         /\ stage' = stage
    ELSE /\ pc' = "stage"
         /\ stage' = IF s = Validate /\ Cardinality({i \in 1..Len(log) :
                                          /\ log[i].kind = "run"
                                          /\ log[i].stage = s}) = 1
                      THEN s
                      ELSE s + 1

\* what follows bucket s (util.py:130-196, one block after the other)
AfterBucket(s) ==
    IF s = PostIntegrate
    THEN /\ pc' = "deregister"
         /\ stage' = stage
    ELSE /\ pc' = "stage"
         /\ stage' = s + 1

\* the call _process_plugins(context, <bucket>, state, progress), up to its
\* for statement (util.py:205-209)
EnterBucket ==
    /\ pc = "stage"
    /\ Gate(stage, args.orders)
    /\ LET bucket == BucketOf(stage, plugins) IN
          /\ runner' = [bucket |-> bucket,
                        expected_plugins_count |-> Len(bucket),
                        actual_plugins_count |-> 0,
                        processed_plugins |-> {},
                        idx |-> 0, fanned |-> 0]
          /\ log' = Append(log, [kind |-> "run", stage |-> stage,
                                 bucket |-> bucket])
    /\ pc' = "iter"
    /\ UNCHANGED <<entry, args, other, registry, registry_before, stage,
                   targets, registered_targets, context, plugins, state, progress>>

\* a gated bucket whose boundary was not requested (util.py:146, 158, 170, 182)
SkipBucket ==
    /\ pc = "stage"
    /\ ~Gate(stage, args.orders)
    /\ AfterBucket(stage)
    /\ UNCHANGED <<entry, args, other, registry, registry_before, targets,
                   registered_targets, context, plugins, state, progress,
                   runner, log>>

---------------------------------------------------------------------------
(* _process_plugins (util.py:204-231) *)

\* util.py:211-214 counting every pair
IncrementPerPair(plug, processed_plugins) == 1

\* util.py:211-214: what the pair of `plug' adds to progress["current"]
Increment(plug, processed_plugins) ==
    IF plug.name \notin processed_plugins THEN 1 ELSE 0

\* util.py:219-220 keeping the order of the latest failure only
NoteErrorForgets(ordersWithError, plug, error) ==
    IF error THEN {plug.order} ELSE ordersWithError

\* util.py:219-220
NoteError(ordersWithError, plug, error) ==
    IF error THEN ordersWithError \cup {plug.order} ELSE ordersWithError

\* util.py:231 left out
ShortfallDropped(r) == 0

\* util.py:231: what the exhausted bucket adds to progress["current"]
Shortfall(r) == r.expected_plugins_count - r.actual_plugins_count

\* logic.Iterator: the positions of the bucket whose plug-in the next pair
\* may belong to.  The plug-in of the last pair again, with another
\* instance, or a later plug-in, the ones in between having no pair.
NextPairs(r) ==
    {j \in 1..Len(r.bucket) :
        \/ j = r.idx /\ r.fanned < MaxInstances
        \/ j > r.idx}

\* One turn of the for loop: the pairing iterator yields (plug, instance),
\* plugin.process returns a result, with or without an error, and the
\* result is yielded (util.py:209-228).  The division of util.py:226 raises
\* ZeroDivisionError when the total is zero.
Pair ==
    /\ pc \in {"iter", "yield"}
    /\ \E j \in NextPairs(runner), error \in BOOLEAN :
          LET plug == runner.bucket[j]
              inc == Increment(plug, runner.processed_plugins)
              current == progress.current + inc
          IN  /\ runner' = [runner EXCEPT
                                !.idx = j,
                                !.fanned = IF j = runner.idx THEN runner.fanned + 1
                                           ELSE 1,
                                !.processed_plugins = @ \cup {plug.name},
                                !.actual_plugins_count = @ + inc]
              /\ progress' = [progress EXCEPT !.current = current]
              /\ state' = [nextOrder |-> <<plug.order>>,
                           ordersWithError |->
                               NoteError(state.ordersWithError, plug, error)]
              /\ IF progress.total = 0
                 THEN /\ pc' = "raised"
                      /\ log' = log
                 ELSE /\ pc' = "yield"
                      /\ log' = Append(log,
                             [kind |-> "result", stage |-> stage,
                              plugin |-> plug, instance |-> runner'.fanned,
                              error |-> error,
                              progress |-> [num |-> current,
                                            den |-> progress.total]])
    /\ UNCHANGED <<entry, args, other, registry, registry_before, stage,
                   targets, registered_targets, context, plugins>>

\* The pairing iterator is exhausted: the plug-ins left have no pair, or
\* the iterator stopped at one of them because an earlier order failed.
\* The shortfall is added (util.py:231) and, back in _convenience_iter, the
\* checkpoint of a gated bucket is emitted (util.py:150, 162, 174, 186).
Exhausted ==
    /\ pc \in {"iter", "yield"}
    /\ \E j \in runner.idx..Len(runner.bucket) :
          /\ j = Len(runner.bucket) \/ state.ordersWithError # {}
          /\ state' = IF j > runner.idx
                      THEN [state EXCEPT !.nextOrder = <<runner.bucket[j].order>>]
                      ELSE state
    /\ progress' = [progress EXCEPT !.current = @ + Shortfall(runner)]
    /\ log' = IF stage \in Gated
              THEN Append(log, [kind |-> "event", name |-> Checkpoint(stage),
                                context |-> context])
              ELSE log
    /\ runner' = NoRunner
    /\ AfterBucket(stage)
    /\ UNCHANGED <<entry, args, other, registry, registry_before, targets,
                   registered_targets, context, plugins>>

\* A collaborator called by the bucket (the pairing iterator, the plug-in
\* execution, a callback) raises.  Nothing in util.py:96-231 catches it:
\* the exception leaves the generator, which is finished from then on.
Raise ==
    /\ pc \in {"iter", "yield"}
    /\ pc' = "raised"
    /\ UNCHANGED <<entry, args, other, registry, registry_before, stage,
                   targets, registered_targets, context, plugins, state, progress,
                   runner, log>>

---------------------------------------------------------------------------
(* The end of the run *)

\* util.py:199-201 without the test of registered_targets
DeregisterEvery(reg, ts, before) == reg \ Elems(ts)

\* util.py:199-201
RECURSIVE DeregisterNew(_, _, _)
DeregisterNew(reg, ts, before) ==
    IF ts = <<>> THEN reg
    ELSE DeregisterNew(IF Head(ts) \notin before
                       THEN deregister_target(reg, Head(ts))
                       ELSE reg,
                       Tail(ts), before)

\* every entry point emitting "published"
EmitsPublishedAlways(e) == TRUE

\* util.py:90-93: publish_iter alone goes on after _convenience_iter
EmitsPublished(e) == e = "publish_iter"

Deregister ==
    /\ pc = "deregister"
    /\ registry' = DeregisterNew(registry, targets, registered_targets)
    /\ pc' = IF EmitsPublished(entry) THEN "published" ELSE "done"
    /\ UNCHANGED <<entry, args, other, registry_before, stage, targets,
                   registered_targets, context, plugins, state, progress,
                   runner, log>>

\* util.py:93: api.emit("published", context=context), with the context
\* argument of publish_iter
Published ==
    /\ pc = "published"
    /\ log' = Append(log, [kind |-> "event", name |-> "published",
                           context |-> args.context])
    /\ pc' = "done"
    /\ UNCHANGED <<entry, args, other, registry, registry_before, stage,
                   targets, registered_targets, context, plugins, state, progress,
                   runner>>

\* an abandoned generator running lines 198-201 as if in a finally clause
AbandonCleansUp ==
    /\ pc \in {"idle", "yield"}
    /\ pc' = "abandoned"
    /\ registry' = DeregisterNew(registry, targets, registered_targets)
    /\ UNCHANGED <<entry, args, other, registry_before, stage, targets,
                   registered_targets, context, plugins, state, progress,
                   runner, log>>

\* The caller stops pulling: the generator stays where it is suspended,
\* before its first statement or at a yield.
Abandon ==
    /\ pc \in {"idle", "yield"}
    /\ pc' = "abandoned"
    /\ UNCHANGED <<entry, args, other, registry, registry_before, stage,
                   targets, registered_targets, context, plugins, state, progress,
                   runner, log>>

\* The first pull of the second run: util.py:97-106 against the same
\* registry.
OtherStart ==
    /\ other.pc = "idle"
    /\ \E t \in TwoRunsTargets :
          LET ts == TargetsOf(t) IN
            /\ other' = [pc |-> "running", targets |-> ts,
                         registered_targets |-> registry]
            /\ registry' = RegisterAll(registry, ts)
    /\ UNCHANGED <<entry, args, registry_before, pc, stage, targets,
                   registered_targets, context, plugins, state, progress,
                   runner, log>>

\* The last pull of the second run: util.py:198-201.
OtherFinish ==
    /\ other.pc = "running"
    /\ registry' = DeregisterNew(registry, other.targets,
                                 other.registered_targets)
    /\ other' = [other EXCEPT !.pc = "done"]
    /\ UNCHANGED <<entry, args, registry_before, pc, stage, targets,
                   registered_targets, context, plugins, state, progress,
                   runner, log>>

Next ==
    \/ Start
    \/ EnterBucket
    \/ SkipBucket
    \/ Pair
    \/ Exhausted
    \/ Raise
    \/ Deregister
    \/ Published
    \/ Abandon

Spec == Init /\ [][Next]_vars

SpecTargets == InitTargets /\ [][Next]_vars

\* two runs pulled alternately by one caller
InitTwoRuns ==
    InitWith(PluginLists(SmallRoster, 1),
             {<<"publish_iter", None>>, <<"collect_iter", Some(<<CollectorOrder>>)>>},
             TwoRunsTargets, {{}, {"a"}}, {"ctx"})

NextTwoRuns == Next \/ OtherStart \/ OtherFinish

SpecTwoRuns == InitTwoRuns /\ [][NextTwoRuns]_vars

\* runs with and without a context argument
InitContext ==
    InitWith(PluginLists(SmallRoster, MaxPlugins),
             {<<"publish_iter", None>>, <<"collect_iter", Some(<<CollectorOrder>>)>>},
             {None}, {{}}, {"None", "ctx"})

SpecContext == InitContext /\ [][Next]_vars

\* one active plug-in class at every order from below the Collect band to
\* above the Integrate band, the edges of all four bands among them
DenseRoster ==
    << [name |-> "below2",  order |-> -3, active |-> TRUE],
       [name |-> "below1",  order |-> -2, active |-> TRUE],
       [name |-> "col_lo",  order |-> -1, active |-> TRUE],
       [name |-> "col",     order |->  0, active |-> TRUE],
       [name |-> "val_lo",  order |->  1, active |-> TRUE],
       [name |-> "val",     order |->  2, active |-> TRUE],
       [name |-> "ext_lo",  order |->  3, active |-> TRUE],
       [name |-> "ext",     order |->  4, active |-> TRUE],
       [name |-> "int_lo",  order |->  5, active |-> TRUE],
       [name |-> "int",     order |->  6, active |-> TRUE],
       [name |-> "int_hi",  order |->  7, active |-> TRUE],
       [name |-> "above1",  order |->  8, active |-> TRUE],
       [name |-> "above2",  order |->  9, active |-> TRUE] >>

\* the plugin lists of at most n classes of the roster next to each other
Windows(roster, n) ==
    {w \in {SubSeq(roster, i, j) : i \in 1..Len(roster), j \in 0..Len(roster)} :
        Len(w) <= n}

InitDense ==
    InitWith(Windows(DenseRoster, MaxPlugins),
             {<<"publish_iter", None>>,
              <<"publish_iter", Some(<<ValidatorOrder, ExtractorOrder>>)>>},
             {None}, {{}}, {"ctx"})

\* The plug-ins of test_plugin_processed_event and test_plugin_failed_event
\* (test_events.py:109-125, 147-160): a collector and two validators of
\* the same order.
ScenarioRoster ==
    << [name |-> "MyContextCollector", order |-> CollectorOrder, active |-> TRUE],
       [name |-> "CheckInstanceFail",  order |-> ValidatorOrder, active |-> TRUE],
       [name |-> "CheckInstancePass",  order |-> ValidatorOrder, active |-> TRUE] >>

InitDriven ==
    InitWith(PluginLists(ScenarioRoster, Len(ScenarioRoster)),
             {<<"publish_iter", None>>,
              <<"publish_iter", Some(<<ValidatorOrder>>)>>,
              <<"validate_iter", Some(<<ValidatorOrder>>)>>},
             {None}, {{}}, {"ctx"})

\* The steps of a run whose caller pulls until the generator is exhausted
\* (util.py:57-58, the for loop of publish) and whose collaborators return.
NextDriven ==
    \/ Start
    \/ EnterBucket
    \/ SkipBucket
    \/ Pair
    \/ Exhausted
    \/ Deregister
    \/ Published

\* a for loop over the generator goes on while the generator can
SpecDriven == InitDriven /\ [][NextDriven]_vars /\ WF_vars(NextDriven)

\* the caller pulls every run to its end
SpecDense == InitDense /\ [][NextDriven]_vars

---------------------------------------------------------------------------
(* What the claims speak of *)

IsResult(e) == e.kind = "result"

\* how often the event `name' was emitted
Emitted(name) == Count(log, LAMBDA e : e.kind = "event" /\ e.name = name)

\* the orders argument is None or names only the four boundaries
NamedBoundaries ==
    args.orders.none \/ Elems(args.orders.list) \subseteq Boundaries

\* no restriction was given, or it names the boundary of bucket s
Requested(s) ==
    \/ args.orders.none
    \/ args.orders.list = <<>>
    \/ \E i \in 1..Len(args.orders.list) : args.orders.list[i] = StageBoundary(s)

\* the order lies in none of the four named bands
OutsideAllBands(order) == \A b \in Boundaries : ~inrange(order, b)

\* the generator is exhausted
Completed == pc = "done"

\* the generator was pulled at least once: the set-up has run
Started == stage >= PreCollect

---------------------------------------------------------------------------
(* C1 *)

\* C1: once the result sequence of a run restricted to any subset of the
\* named boundaries (or not restricted) is exhausted, progress.current
\* equals progress.total, whatever buckets were skipped and whatever
\* plug-ins the pairing iterator skipped.
C1_ProgressComplete ==
    (Completed /\ NamedBoundaries) => progress.current = progress.total

\* a restricted run that skipped buckets and in which the pairing iterator
\* gave no pair for a selected plug-in
C1_Witness ==
    /\ Completed
    /\ Truthy(args.orders) /\ NamedBoundaries
    /\ Count(log, LAMBDA e : e.kind = "run") < 6
    /\ progress.total = 2
    /\ Count(log, IsResult) = 1
    /\ progress.current = progress.total

---------------------------------------------------------------------------
(* C2 *)

ProgressInRange ==
    0 <= progress.current /\ progress.current <= progress.total

\* every yielded fraction is defined, in [0, 1], and not below an earlier one
FractionsOrdered ==
    \A i \in 1..Len(log) :
        IsResult(log[i]) =>
            /\ log[i].progress.den > 0
            /\ 0 <= log[i].progress.num
            /\ log[i].progress.num <= log[i].progress.den
            /\ \A j \in 1..(i - 1) :
                  IsResult(log[j]) =>
                      log[j].progress.num * log[i].progress.den
                          <= log[i].progress.num * log[j].progress.den

\* C2: at every moment 0 <= progress.current <= progress.total and
\* progress.current never decreases; the fraction of every yielded result
\* has a positive denominator, lies in [0, 1] and is not below the
\* fraction of any earlier result of the run.
C2_ProgressMonotone ==
    /\ [](ProgressInRange /\ FractionsOrdered)
    /\ [][progress'.current >= progress.current]_vars

\* a finished run whose results carry two different fractions
C2_Witness ==
    /\ Completed
    /\ \E i, j \in 1..Len(log) :
          /\ i < j /\ IsResult(log[i]) /\ IsResult(log[j])
          /\ log[i].stage # log[j].stage
          /\ log[i].progress.num < log[j].progress.num
          /\ log[j].progress.num = log[j].progress.den

---------------------------------------------------------------------------
(* C3, C4 *)

\* C3: when a run has been driven to completion the target registry is
\* what it was before the run: no label the run added is left, no label
\* that was there is gone.
C3_RegistryRestored == Completed => registry = registry_before

\* two labels requested, one of them registered before the run
C3_Witness ==
    /\ Completed
    /\ args.targets = Some(<<"a", "b">>)
    /\ registry_before = {"a"}
    /\ registry = {"a"}

\* C4: after an error has left a bucket and reached the caller, no label
\* that this run registered, and that was not registered before it, is
\* still in the target registry.
C4_DeregisteredOnError ==
    pc = "raised" =>
        \A t \in Elems(targets) : t \notin registry_before => t \notin registry

---------------------------------------------------------------------------
(* C5, C6 *)

\* C5: in a run driven to completion, each of collected, validated,
\* extracted, integrated is emitted exactly once if no restriction was
\* given or the restriction names the stage's boundary, and not at all
\* otherwise, also when the stage's bucket is empty.
C5_CheckpointsOnce ==
    Completed =>
        \A s \in Gated :
            Emitted(Checkpoint(s)) = IF Requested(s) THEN 1 ELSE 0

\* collect_iter on no plug-ins at all
C5_Witness ==
    /\ Completed
    /\ entry = "collect_iter"
    /\ args.plugins = <<>>
    /\ Emitted("collected") = 1
    /\ Emitted("validated") = 0

IsPublished(e) == e.kind = "event" /\ e.name = "published"

\* C6: publish_iter driven to completion has emitted published exactly
\* once, after every result and every stage checkpoint of the run; no
\* single-stage entry point ever emits published.
C6_PublishedLast ==
    /\ \A i \in 1..Len(log) : IsPublished(log[i]) => i = Len(log)
    /\ entry \in SingleStage => Emitted("published") = 0
    /\ (entry = "publish_iter" /\ Completed) =>
           /\ Emitted("published") = 1
           /\ IsPublished(log[Len(log)])

\* a restricted full run with a failed plug-in, published after the rest
C6_Witness ==
    /\ Completed
    /\ entry = "publish_iter"
    /\ Truthy(args.orders)
    /\ \E i \in 1..Len(log) : IsResult(log[i]) /\ log[i].error
    /\ Emitted("validated") = 1
    /\ Emitted("extracted") = 0
    /\ IsPublished(log[Len(log)])

---------------------------------------------------------------------------
(* C7 *)

\* the checkpoint of a single-stage entry point
EntryCheckpoint(e) ==
    CASE e = "collect_iter"   -> "collected"
      [] e = "validate_iter"  -> "validated"
      [] e = "extract_iter"   -> "extracted"
      [] e = "integrate_iter" -> "integrated"

\* C7: every result a single-stage entry point yields belongs to a
\* plug-in whose order is inside the band of that stage, and the only
\* event emitted during its run is the checkpoint of that stage.
C7_OwnStageOnly ==
    entry \in SingleStage =>
        \A i \in 1..Len(log) :
            /\ IsResult(log[i]) =>
                   inrange(log[i].plugin.order, BoundaryOf(entry))
            /\ log[i].kind = "event" => log[i].name = EntryCheckpoint(entry)

\* validate_iter on a collector and a validator: the validator alone ran
C7_Witness ==
    /\ Completed
    /\ entry = "validate_iter"
    /\ \E i \in 1..Len(args.plugins) : inrange(args.plugins[i].order, CollectorOrder)
    /\ \E i \in 1..Len(log) : IsResult(log[i]) /\ log[i].plugin.name = "val"
    /\ Emitted("validated") = 1
    /\ Emitted("collected") = 0

---------------------------------------------------------------------------
(* C8 *)

\* bucket s, as the partition of the selected plug-ins defines it, was
\* handed to the stage runner
Handed(s) ==
    \E i \in 1..Len(log) :
        /\ log[i].kind = "run"
        /\ log[i].stage = s
        /\ log[i].bucket = SelectSeq(plugins, LAMBDA plug : InBucket(s, plug))

\* C8: whatever the orders argument, the pre-collect bucket and the
\* post-integrate bucket are handed to the stage runner: once the run is
\* past the first bucket the pre-collect bucket was handed over, and once
\* the run is past the last one so was the post-integrate bucket.
C8_EndsNeverGated ==
    /\ stage > PreCollect => Handed(PreCollect)
    /\ pc \in {"deregister", "published", "done"} => Handed(PostIntegrate)

\* a restricted run whose pre-collect plug-in was executed
C8_Witness ==
    /\ Completed
    /\ Truthy(args.orders)
    /\ \E i \in 1..Len(log) : IsResult(log[i]) /\ log[i].stage = PreCollect

---------------------------------------------------------------------------
(* C9 *)

\* C9: when a restriction is given, an active plug-in whose order lies
\* outside all four named bands is never discarded by the order filter.
C9_OutsideBandsKept ==
    (Started /\ Truthy(args.orders)) =>
        \A i \in 1..Len(args.plugins) :
            (args.plugins[i].active /\ OutsideAllBands(args.plugins[i].order))
                => args.plugins[i] \in Elems(plugins)

\* C9, amended: when a restriction is given, the order filter keeps
\* exactly the active plug-ins whose order lies inside the band of at
\* least one requested order, and discards every other one, the plug-ins
\* outside all four named bands included.
C9_KeepsRequestedBandsOnly ==
    (Started /\ Truthy(args.orders)) =>
        \A i \in 1..Len(args.plugins) :
            args.plugins[i].active =>
                (args.plugins[i] \in Elems(plugins)
                    <=> \E k \in 1..Len(args.orders.list) :
                            /\ args.orders.list[k] - Offset <= args.plugins[i].order
                            /\ args.plugins[i].order < args.orders.list[k] + Offset)

\* named boundaries requested, and an active plug-in below the Collect
\* band discarded
C9_Witness ==
    /\ Started
    /\ Truthy(args.orders) /\ NamedBoundaries
    /\ \E i \in 1..Len(args.plugins) :
          /\ args.plugins[i].active
          /\ OutsideAllBands(args.plugins[i].order)
          /\ args.plugins[i] \notin Elems(plugins)

---------------------------------------------------------------------------
(* C10 *)

\* C10: no yielded result references a plug-in whose active flag is
\* false, and progress.total counts no such plug-in: it is the number of
\* active plug-ins that pass the order filter.
C10_InactiveNeverRun ==
    /\ \A i \in 1..Len(log) : IsResult(log[i]) => log[i].plugin.active
    /\ Started =>
          /\ progress.total <= Count(args.plugins, LAMBDA plug : plug.active)
          /\ ~Truthy(args.orders) =>
                progress.total = Count(args.plugins, LAMBDA plug : plug.active)

\* an inactive validator beside an active one: one result, total one
C10_Witness ==
    /\ Completed
    /\ ~Truthy(args.orders)
    /\ \E i \in 1..Len(args.plugins) : ~args.plugins[i].active
    /\ \E i \in 1..Len(log) : IsResult(log[i])
    /\ progress.total = 1

---------------------------------------------------------------------------
(* C11 *)

\* a result with an error has been yielded
HasError == \E i \in 1..Len(log) : IsResult(log[i]) /\ log[i].error

\* bucket s was run
Entered(s) == \E i \in 1..Len(log) : log[i].kind = "run" /\ log[i].stage = s

\* the run went through every selected bucket, emitted their checkpoints
\* (and published, for the full pipeline) and gave the registry back
WentThrough ==
    /\ Entered(PreCollect) /\ Entered(PostIntegrate)
    /\ \A s \in Gated :
          Requested(s) => Entered(s) /\ Emitted(Checkpoint(s)) = 1
    /\ entry = "publish_iter" => Emitted("published") = 1
    /\ registry = registry_before

\* C11: a plug-in failure never halts the run.  After a result with an
\* error the stage runner still takes whatever pair the pairing iterator
\* has next; the run, pulled on, reaches completion; and at completion
\* every selected bucket was entered, its checkpoint emitted (published
\* too for the full pipeline) and the targets deregistered.
C11_FailureNeverHalts ==
    /\ []((HasError /\ pc = "yield" /\ NextPairs(runner) # {}) => ENABLED Pair)
    /\ []((HasError /\ Completed) => WentThrough)
    /\ (HasError ~> Completed)

\* the scenario of the tests: the full pipeline on the collector, the
\* failing validator and the passing validator, one pair each, gives
\* three results, one with an error, the passing validator after the
\* failing one
C11_Witness ==
    /\ Completed
    /\ entry = "publish_iter" /\ args.orders = None
    /\ Count(log, IsResult) = 3
    /\ Count(log, LAMBDA e : IsResult(e) /\ e.error) = 1
    /\ \E i, j \in 1..Len(log) :
          /\ i < j /\ IsResult(log[i]) /\ IsResult(log[j])
          /\ log[i].plugin.name = "CheckInstanceFail" /\ log[i].error
          /\ log[j].plugin.name = "CheckInstancePass" /\ ~log[j].error
          /\ log[i].plugin.order = log[j].plugin.order
    /\ WentThrough

---------------------------------------------------------------------------
(* C12, C13 *)

\* C12: a run whose orders argument is not a list of named boundaries is
\* refused before any work begins: no stage is entered, no plug-in is
\* executed and no checkpoint is emitted.
C12_MalformedOrdersRefused == ~NamedBoundaries => log = <<>>

\* C13: every checkpoint is emitted with the context the plug-ins of the
\* run are executed against, whatever the entry point and whether or not
\* the caller gave a context.
C13_CheckpointContext ==
    \A i \in 1..Len(log) : log[i].kind = "event" => log[i].context = context

---------------------------------------------------------------------------
(* C14 *)

Abandoned == pc = "abandoned"

\* C14: abandoning the pull halts the run where it is: the step that
\* abandons executes no plug-in, emits no checkpoint and leaves the
\* registry alone, nothing happens afterwards, and every label of the run
\* is still registered.
C14_AbandonHalts ==
    /\ [][(Abandoned \/ Abandoned') => /\ Abandoned'
                                       /\ log' = log
                                       /\ registry' = registry
                                       /\ progress' = progress
                                       /\ state' = state]_vars
    /\ [](Abandoned /\ Started => Elems(targets) \subseteq registry)

C14_Witness ==
    /\ Abandoned
    /\ Count(log, IsResult) >= 1
    /\ NextPairs(runner) # {}
    /\ \E t \in Elems(targets) : t \notin registry_before /\ t \in registry

---------------------------------------------------------------------------
(* C15 *)

IsRun(e) == e.kind = "run"

\* the block of _convenience_iter an entry of the log comes from; the
\* emit of publish_iter follows the last block
StageOf(e) ==
    CASE e.kind # "event"      -> e.stage
      [] e.name = "collected"  -> Collect
      [] e.name = "validated"  -> Validate
      [] e.name = "extracted"  -> Extract
      [] e.name = "integrated" -> Integrate
      [] e.name = "published"  -> PostIntegrate + 1

\* within a block: the call of the stage runner, its results, the emit
Rank(e) == CASE e.kind = "run" -> 0 [] e.kind = "result" -> 1 [] e.kind = "event" -> 2

\* entry b may directly follow entry a
InOrder(a, b) ==
    LET sa == StageOf(a)
        sb == StageOf(b)
    IN  \/ sa < sb
        \/ sa = sb /\ (Rank(a) < Rank(b) \/ (IsResult(a) /\ IsResult(b)))

\* C15: the buckets are run in the order pre-collect .. post-integrate,
\* each at most once and never backwards.  Every entry of the log is
\* followed by an entry of the same bucket (a result by a further result or
\* by the checkpoint, the call by a result or by the checkpoint) or of a
\* later bucket: so the stages of the results never decrease, no bucket is
\* run twice, each stage checkpoint lies after the last result of its
\* bucket and before the first result of any later bucket, and every result
\* comes from a plug-in of the bucket being run.
C15_StagesInOrder ==
    /\ \A i \in 1..(Len(log) - 1) : InOrder(log[i], log[i + 1])
    /\ \A i \in 1..Len(log) :
          IsResult(log[i]) => InBucket(log[i].stage, log[i].plugin)

C15_Witness ==
    /\ Completed
    /\ \E i, j, k \in 1..Len(log) :
          /\ i < j /\ j < k
          /\ IsResult(log[i]) /\ log[i].stage = Collect
          /\ log[j].kind = "event" /\ log[j].name = "collected"
          /\ IsResult(log[k]) /\ log[k].stage = Validate

---------------------------------------------------------------------------
(* C16 *)

Stages == PreCollect..PostIntegrate

BucketsOf(plug) == {s \in Stages : InBucket(s, plug)}

BucketSizes ==
    Len(BucketOf(PreCollect, plugins)) + Len(BucketOf(Collect, plugins))
    + Len(BucketOf(Validate, plugins)) + Len(BucketOf(Extract, plugins))
    + Len(BucketOf(Integrate, plugins)) + Len(BucketOf(PostIntegrate, plugins))

\* the buckets handed to the stage runner so far that hold plug-in `plug'
HandedWith(plug) ==
    {i \in 1..Len(log) : IsRun(log[i]) /\ plug \in Elems(log[i].bucket)}

\* C16: every plug-in that survives the filters is in exactly one of the
\* six buckets, so the sizes of the buckets add up to progress.total; in
\* the run no plug-in is handed to the stage runner twice, and a run that
\* skips no bucket has handed over every plug-in once when it completes.
C16_BucketsPartition ==
    Started =>
        /\ \A i \in 1..Len(plugins) : Cardinality(BucketsOf(plugins[i])) = 1
        /\ BucketSizes = progress.total
        /\ \A i \in 1..Len(plugins) :
              /\ Cardinality(HandedWith(plugins[i])) <= 1
              /\ Completed /\ ~Truthy(args.orders)
                    => Cardinality(HandedWith(plugins[i])) = 1

\* two plug-ins on the two sides of the edge between the Collect and the
\* Validate band, each handed over with its own bucket
C16_Witness ==
    /\ Completed
    /\ progress.total = 2
    /\ \E i, j \in 1..Len(log) :
          /\ IsRun(log[i]) /\ log[i].stage = Collect
          /\ IsRun(log[j]) /\ log[j].stage = Validate
          /\ Len(log[i].bucket) = 1 /\ Len(log[j].bucket) = 1
          /\ log[i].bucket[1].order = CollectorOrder
          /\ log[j].bucket[1].order = ValidatorOrder - Offset

---------------------------------------------------------------------------
(* C17 *)

\* the orders of the plug-ins with a failed result so far
FailedOrders ==
    {log[i].plugin.order : i \in {k \in 1..Len(log) :
                                    IsResult(log[k]) /\ log[k].error}}

\* C17: at every point of a run ordersWithError is exactly the set of the
\* orders at which a result with an error has been produced so far: an
\* order enters with the failed result, none is removed, and the set is the
\* same in every bucket that follows.
C17_OrdersWithError == Started => state.ordersWithError = FailedOrders

\* a failure of the collect bucket still noted while a later bucket, which
\* adds a failure of its own, is being run
C17_Witness ==
    /\ pc = "yield"
    /\ stage = Extract
    /\ state.ordersWithError = {CollectorOrder - Offset, ExtractorOrder}
    /\ \E i \in 1..Len(log) :
          IsResult(log[i]) /\ log[i].stage = Collect /\ log[i].error

---------------------------------------------------------------------------
(* C18 *)

\* the results of plug-in `plug' in the bucket of stage s so far
ResultsOf(s, plug) ==
    {i \in 1..Len(log) :
        IsResult(log[i]) /\ log[i].stage = s /\ log[i].plugin = plug}

\* the step yields a result
Yields == Len(log') = Len(log) + 1 /\ IsResult(log'[Len(log')])

\* C18: progress counts plug-ins, not pairs: the step that yields a result
\* adds one to progress.current when the result is the first of its plug-in
\* in the bucket and nothing when it is a further one, so the k results of
\* a plug-in all carry the same count.
C18_CountsPlugins ==
    /\ [][Yields =>
            LET r == log'[Len(log')] IN
              /\ progress'.current - progress.current
                    = IF ResultsOf(r.stage, r.plugin) = {} THEN 1 ELSE 0
              /\ r.progress.num = progress'.current]_vars
    /\ [](\A i \in 1..(Len(log) - 1) :
            IsResult(log[i]) /\ IsResult(log[i + 1])
            /\ log[i].stage = log[i + 1].stage
            /\ log[i].plugin = log[i + 1].plugin
                => log[i].progress.num = log[i + 1].progress.num)

\* a plug-in fanned out over two instances, after another plug-in
C18_Witness ==
    /\ Completed
    /\ progress.total = 2
    /\ progress.current = 2
    /\ \E i, j \in 1..Len(log) :
          /\ i < j
          /\ IsResult(log[i]) /\ IsResult(log[j])
          /\ log[i].plugin = log[j].plugin /\ log[i].stage = log[j].stage
          /\ log[i].instance = 1 /\ log[j].instance = 2
          /\ log[i].progress.num = 2 /\ log[j].progress.num = 2

---------------------------------------------------------------------------
(* C19 *)

\* between the first pull of the run and the end of its deregistration
Unfinished == Started /\ pc \in {"stage", "iter", "yield", "deregister"}

\* C19: with two runs pulled alternately against the one registry, every
\* label a run asked for stays registered from the first pull of that run
\* until its own completion; the completion of one run never deregisters a
\* label of the other, unfinished run.
C19_LabelsKeptAcrossRuns ==
    /\ Unfinished => Elems(targets) \subseteq registry
    /\ other.pc = "running" => Elems(other.targets) \subseteq registry

---------------------------------------------------------------------------
(* C20 *)

EmptyOrders == args.orders = Some(<<>>)

\* bucket s lies behind the position of the run
Passed(s) == stage > s \/ pc \in {"deregister", "published", "done"}

\* C20: an empty orders list is treated like no list.  The run reads the
\* argument through the order filter and the gates only; for the empty list
\* both give what they give for None, so the run selects every active
\* plug-in, skips no bucket and emits all four stage checkpoints.
C20_EmptyLikeNone ==
    EmptyOrders =>
        /\ OrderFilter(ActiveFilter(args.plugins), args.orders)
              = OrderFilter(ActiveFilter(args.plugins), None)
        /\ \A s \in Stages : Gate(s, args.orders) = Gate(s, None)
        /\ Started =>
              /\ plugins = ActiveFilter(args.plugins)
              /\ progress.total = Len(plugins)
              /\ \A s \in Stages : Passed(s) => Handed(s)
              /\ \A s \in Gated :
                    Emitted(Checkpoint(s)) = IF Passed(s) THEN 1 ELSE 0

C20_Witness ==
    /\ EmptyOrders
    /\ Completed
    /\ progress.current = 2
    /\ \A s \in Gated : Emitted(Checkpoint(s)) = 1
    /\ \E i, j \in 1..Len(log) :
          /\ IsResult(log[i]) /\ log[i].stage = PreCollect
          /\ IsResult(log[j]) /\ log[j].stage = Extract

===========================================================================
